---- MODULE Spec2Model ----
(***************************************************************************)
(* Model of taskservice.go: GetTasks and getTasksRecursively, the          *)
(* recursive enumeration of the tasks registered with the Windows Task     *)
(* Scheduler 2.0 COM service.                                              *)
(*                                                                         *)
(* The Task Scheduler is the variable ds: a tree of folders, the tasks of  *)
(* each folder, the actions of each task, and the set of COM calls that    *)
(* fail ("err") or answer with a VARIANT of an unexpected type ("bad").    *)
(* GetTasks is a function of ds; it is computed as the code computes it,   *)
(* together with the trace of what it does to every COM handle.            *)
(***************************************************************************)
EXTENDS Integers, Sequences, FiniteSets, TLC

\* Bounds of the checked Task Scheduler contents.
MaxFolders == 3
MaxTasks == 2
MaxActions == 3
MaxFaults == 1

VARIABLES
    ds,     \* the Task Scheduler: [parent, tfolder, atask, akind, faults]
    pc,     \* "ready" before the call of GetTasks, "returned" after it
    tasks,  \* the []Task GetTasks returned
    err,    \* the error GetTasks returned ("nil" for nil)
    log     \* every acquire / use / release of a COM handle, in program order

vars == <<ds, pc, tasks, err, log>>

----------------------------------------------------------------------------
(* Values *)

\* actionType 0 is IExecAction (TASK_ACTION_EXEC)
TASK_ACTION_EXEC == 0
\* 0 = execute program, 6 = send e-mail
ActionTypes == {TASK_ACTION_EXEC, 6}

\* zero values of the fields of Task and ExecAction
EmptyString == 0
ZeroTime == 0
NoActions == <<>>
Nil == "nil"

\* the root folder "\\"
Root == 1

\* What the Task Scheduler holds for task t and action a (strings and times
\* are numbers, all different from the zero values and from each other).
NameOf(t) == 10 + t
PathOf(t) == 20 + t
EnabledOf(t) == t % 2 = 1
LastRunTimeOf(t) == 30 + t
NextRunTimeOf(t) == 40 + t
WorkingDirectoryOf(a) == 50 + a
ProgramOf(a) == 60 + a
ArgumentsOf(a) == 70 + a

----------------------------------------------------------------------------
(* The COM objects the code talks to *)

RECURSIVE SetToSeq(_)
\* the members of a collection, in index order (item 1, item 2, ...)
SetToSeq(S) ==
    IF S = {} THEN <<>>
    ELSE LET m == CHOOSE x \in S : \A y \in S : x <= y
         IN <<m>> \o SetToSeq(S \ {m})

\* folder.GetFolders(0): the sub-folders of f
GetFolders(E, f) == SetToSeq({c \in DOMAIN E.parent : E.parent[c] = f})
\* folder.GetTasks(0): the tasks of f
TasksOf(E, f) == SetToSeq({t \in DOMAIN E.tfolder : E.tfolder[t] = f})
\* definition.actions: the actions of t
ActionsOf(E, t) == SetToSeq({a \in DOMAIN E.atask : E.atask[a] = t})

\* oleutil.GetProperty / CallMethod of member name on object id returns err != nil
Err(E, kind, name, id) == <<"err", kind, name, id>> \in E.faults

\* x, _ := variant.Value().(int32): the zero value when the VARIANT holds no int32
ToInt32(E, kind, name, id, v) ==
    IF <<"bad", kind, name, id>> \in E.faults THEN 0 ELSE v

\* one entry of the handle trace
Ev(op, kind, id) == <<op, kind, id>>

----------------------------------------------------------------------------
(* getTasksRecursively *)

\* the loop written with `i < count`: the last item is never visited
LoopCondStrict(i, count) == i < count

\* the loop condition of `for i := int32(1); i <= count; i++`
LoopCond(i, count) == i <= count

\* `break` in place of `continue`: a failed fetch ends the loop
Break(i, count) == count + 1

\* `continue` after a failed fetch of item i: the loop goes on with i + 1
Continue(i, count) == i + 1

\* if variant, err = GetProperty(..); err == nil { x = variant.ToString() }
ReadString(E, kind, name, id, v) == IF Err(E, kind, name, id) THEN EmptyString ELSE v
\* the read of a bool with its error ignored
ReadBoolUnchecked(E, kind, name, id, v) == v

\* if ...; err == nil { t.Enabled, _ = variant.Value().(bool) }
ReadBool(E, kind, name, id, v) == IF Err(E, kind, name, id) THEN FALSE ELSE v
\* if ...; err == nil { t.LastRunTime, _ = variant.Value().(time.Time) }
ReadTime(E, kind, name, id, v) == IF Err(E, kind, name, id) THEN ZeroTime ELSE v

\* the type test left out: every action is taken for an IExecAction
KeepsEveryAction(actionType) == TRUE

\* if actionType != 0 { action.Release(); continue }
IsExecAction(actionType) == actionType = TASK_ACTION_EXEC

\* var a ExecAction and its three reads
ExecActionOf(E, a) ==
    [WorkingDirectory |-> ReadString(E, "action", "workingDirectory", a, WorkingDirectoryOf(a)),
     Path             |-> ReadString(E, "action", "path", a, ProgramOf(a)),
     Arguments        |-> ReadString(E, "action", "arguments", a, ArgumentsOf(a))]

\* One pass of the loop over the actions of task t, for the action a at the
\* current index: what it appends to t.ActionList and what it does to handles.
ActionStep(E, t, a) ==
    LET fetch == <<Ev("use", "actions", t)>>
        typ   == fetch \o <<Ev("acquire", "action", a), Ev("use", "action", a)>>
        reads == <<Ev("use", "action", a), Ev("use", "action", a), Ev("use", "action", a)>>
        rel   == <<Ev("release", "action", a)>>
    IN  IF Err(E, "actions", "item", a)
        THEN [fetched |-> FALSE, list |-> <<>>, log |-> fetch]
        ELSE IF Err(E, "action", "type", a)
        THEN [fetched |-> TRUE, list |-> <<>>, log |-> typ \o rel]
        ELSE IF ~IsExecAction(ToInt32(E, "action", "type", a, E.akind[a]))
        THEN [fetched |-> TRUE, list |-> <<>>, log |-> typ \o rel]
        ELSE [fetched |-> TRUE, list |-> <<ExecActionOf(E, a)>>,
              log |-> typ \o reads \o rel]

RECURSIVE ActionLoop(_, _, _, _, _)
\* for i := int32(1); i <= count2; i++ { ... } over the actions of t
ActionLoop(E, t, i, list, lg) ==
    LET items  == ActionsOf(E, t)
        count2 == ToInt32(E, "actions", "count", t, Len(items))
    IN  IF ~LoopCond(i, count2) THEN [list |-> list, log |-> lg]
        ELSE LET s == ActionStep(E, t, items[i])
             IN  ActionLoop(E, t, IF s.fetched THEN i + 1 ELSE Continue(i, count2),
                            list \o s.list, lg \o s.log)

\* "Get more details, e.g. actions": definition, actions, count, the loop
ActionListOf(E, t) ==
    LET l1 == <<Ev("use", "task", t)>>
        l2 == l1 \o <<Ev("acquire", "definition", t), Ev("use", "definition", t)>>
        l3 == l2 \o <<Ev("acquire", "actions", t), Ev("use", "actions", t)>>
    IN  IF Err(E, "task", "definition", t) THEN [list |-> NoActions, log |-> l1]
        ELSE IF Err(E, "definition", "actions", t) THEN [list |-> NoActions, log |-> l2]
        ELSE IF Err(E, "actions", "count", t) THEN [list |-> NoActions, log |-> l3]
        ELSE ActionLoop(E, t, 1, NoActions, l3)

\* var t Task ... tasks = append(tasks, t); task.Release()
ProjectTask(E, t) ==
    LET al == ActionListOf(E, t)
        u  == Ev("use", "task", t)
    IN  [task |-> [Name        |-> ReadString(E, "task", "name", t, NameOf(t)),
                   Path        |-> ReadString(E, "task", "path", t, PathOf(t)),
                   Enabled     |-> ReadBool(E, "task", "enabled", t, EnabledOf(t)),
                   LastRunTime |-> ReadTime(E, "task", "lastRunTime", t, LastRunTimeOf(t)),
                   NextRunTime |-> ReadTime(E, "task", "nextRunTime", t, NextRunTimeOf(t)),
                   ActionList  |-> al.list],
         log  |-> <<Ev("acquire", "task", t), u, u, u, u, u>> \o al.log
                  \o <<Ev("release", "task", t)>>]

RECURSIVE TaskLoop(_, _, _, _, _)
\* for i := int32(1); i <= count; i++ { ... } over the tasks of folder f
TaskLoop(E, f, i, acc, lg) ==
    LET items == TasksOf(E, f)
        count == ToInt32(E, "taskIterator", "count", f, Len(items))
        fetch == <<Ev("use", "taskIterator", f)>>
    IN  IF ~LoopCond(i, count) THEN [tasks |-> acc, log |-> lg]
        ELSE IF Err(E, "taskIterator", "item", items[i])
        THEN TaskLoop(E, f, Continue(i, count), acc, lg \o fetch)
        ELSE LET p == ProjectTask(E, items[i])
             IN  TaskLoop(E, f, i + 1, Append(acc, p.task), lg \o fetch \o p.log)

\* the tasks of a sub-folder put in front of those collected so far
ConcatFront(acc, subtasks) == subtasks \o acc

\* tasks = append(tasks, subtasks...)
Concat(acc, subtasks) == acc \o subtasks

\* subfolder.Release() moved before the recursive call
VisitLogEarlyRelease(c, sublog) ==
    <<Ev("acquire", "folder", c), Ev("release", "folder", c), Ev("call", "folder", c)>>
        \o sublog \o <<Ev("return", "folder", c)>>

\* subfolder := variant.ToIDispatch(); getTasksRecursively(subfolder); subfolder.Release()
VisitLog(c, sublog) ==
    <<Ev("acquire", "folder", c), Ev("call", "folder", c)>> \o sublog
        \o <<Ev("return", "folder", c), Ev("release", "folder", c)>>

RECURSIVE getTasksRecursively(_, _), SubLoop(_, _, _, _, _)
\* for i := int32(1); i <= count; i++ { ... } over the sub-folders of f
SubLoop(E, f, i, acc, lg) ==
    LET items == GetFolders(E, f)
        count == ToInt32(E, "folderIterator", "count", f, Len(items))
        fetch == <<Ev("use", "folderIterator", f)>>
    IN  IF ~LoopCond(i, count) THEN [tasks |-> acc, log |-> lg]
        ELSE IF Err(E, "folderIterator", "item", items[i])
        THEN SubLoop(E, f, Continue(i, count), acc, lg \o fetch)
        ELSE LET sub == getTasksRecursively(E, items[i])
             IN  SubLoop(E, f, i + 1, Concat(acc, sub.tasks),
                         lg \o fetch \o VisitLog(items[i], sub.log))

\* func getTasksRecursively(folder *ole.IDispatch) (tasks []Task)
getTasksRecursively(E, f) ==
    LET l1 == <<Ev("use", "folder", f)>>
        l2 == l1 \o <<Ev("acquire", "folderIterator", f), Ev("use", "folderIterator", f)>>
    IN  IF Err(E, "folder", "GetFolders", f) THEN [tasks |-> <<>>, log |-> l1]
        ELSE IF Err(E, "folderIterator", "count", f) THEN [tasks |-> <<>>, log |-> l2]
        ELSE
          LET s  == SubLoop(E, f, 1, <<>>, l2)
              l3 == s.log \o <<Ev("release", "folderIterator", f), Ev("use", "folder", f)>>
              l4 == l3 \o <<Ev("acquire", "taskIterator", f), Ev("use", "taskIterator", f)>>
          IN  IF Err(E, "folder", "GetTasks", f) THEN [tasks |-> s.tasks, log |-> l3]
              ELSE IF Err(E, "taskIterator", "count", f) THEN [tasks |-> s.tasks, log |-> l4]
              ELSE LET r == TaskLoop(E, f, 1, s.tasks, l4)
                   IN  [tasks |-> r.tasks,
                        log   |-> r.log \o <<Ev("release", "taskIterator", f)>>]

----------------------------------------------------------------------------
(* GetTasks *)

\* the error of Connect ignored
ConnectIgnored(E) == FALSE

\* if _, err := ts.CallMethod("Connect", ...); err != nil { return nil, ... }
ConnectFails(E) == Err(E, "ts", "Connect", 0)

\* return nil, errors.New(message), after the deferred calls registered so far
Failure(message, lg) == [tasks |-> <<>>, err |-> message, log |-> lg]

\* func GetTasks() ([]Task, error)
GetTasksCall(E) ==
    LET c0 == <<Ev("acquire", "com", 0)>>
        c1 == c0 \o <<Ev("acquire", "unknown", 0)>>
        c2 == c1 \o <<Ev("use", "unknown", 0)>>
        c3 == c2 \o <<Ev("acquire", "ts", 0), Ev("use", "ts", 0)>>
        c4 == c3 \o <<Ev("use", "ts", 0)>>
        dCom     == <<Ev("release", "com", 0)>>
        dUnknown == <<Ev("release", "unknown", 0)>> \o dCom
        dTs      == <<Ev("release", "ts", 0)>> \o dUnknown
        dRoot    == <<Ev("release", "folder", Root)>> \o dTs
    IN  IF Err(E, "ole", "CoInitializeEx", 0)
        THEN Failure("Could not initialize Windows COM API", <<>>)
        ELSE IF Err(E, "ole", "CreateInstance", 0)
        THEN Failure("Could not initialize Task Scheduler 2.0", c0 \o dCom)
        ELSE IF Err(E, "unknown", "QueryInterface", 0)
        THEN Failure("Could not prepare Task Scheduler 2.0", c2 \o dUnknown)
        ELSE IF ConnectFails(E)
        THEN Failure("Could not connect to Task Scheduler 2.0", c3 \o dTs)
        ELSE IF Err(E, "ts", "GetFolder", 0)
        THEN Failure("Could not get root folder in Task Scheduler 2.0", c4 \o dTs)
        ELSE LET r == getTasksRecursively(E, Root)
             IN  [tasks |-> r.tasks, err |-> Nil,
                  log   |-> c4 \o <<Ev("acquire", "folder", Root), Ev("call", "folder", Root)>>
                               \o r.log \o <<Ev("return", "folder", Root)>> \o dRoot]

----------------------------------------------------------------------------
(* The Task Scheduler contents GetTasks is checked on *)

RECURSIVE KSubsets(_, _)
\* the subsets of L with at most k members
KSubsets(L, k) ==
    IF k = 0 THEN {{}}
    ELSE LET prev == KSubsets(L, k - 1)
         IN  prev \cup {s \cup {x} : s \in prev, x \in L}

\* folder trees: parent[f] is the folder holding f, 0 for the root
FolderShapes ==
    UNION {{p \in [1..n -> 0..(n - 1)] :
               p[Root] = 0 /\ \A i \in 2..n : p[i] >= 1 /\ p[i] < i}
           : n \in 1..MaxFolders}

\* the folder of each task
TaskPlacements(p) ==
    UNION {{tf \in [1..m -> DOMAIN p] : \A i \in 1..m, j \in 1..m : i < j => tf[i] <= tf[j]}
           : m \in 0..MaxTasks}

\* the action types of the actions of one task
ActionShapes == UNION {[1..k -> ActionTypes] : k \in 0..MaxActions}

BootFaults ==
    {<<"err", "ole", "CoInitializeEx", 0>>, <<"err", "ole", "CreateInstance", 0>>,
     <<"err", "unknown", "QueryInterface", 0>>, <<"err", "ts", "Connect", 0>>,
     <<"err", "ts", "GetFolder", 0>>}

FolderFaults(p) ==
    {<<"err", "folder", "GetFolders", f>> : f \in DOMAIN p}
    \cup {<<"err", "folder", "GetTasks", f>> : f \in DOMAIN p}
    \cup {<<k, it, "count", f>> : k \in {"err", "bad"},
                                  it \in {"folderIterator", "taskIterator"}, f \in DOMAIN p}
    \cup {<<"err", "folderIterator", "item", f>> : f \in DOMAIN p \ {Root}}

TaskFetchFaults(tf) == {<<"err", "taskIterator", "item", t>> : t \in DOMAIN tf}

TaskPropertyFaults(t) ==
    {<<"err", "task", n, t>> :
        n \in {"name", "path", "enabled", "lastRunTime", "nextRunTime", "definition"}}
    \cup {<<"err", "definition", "actions", t>>, <<"err", "actions", "count", t>>}

ActionFaults(t, ak) ==
    {<<"bad", "actions", "count", t>>}
    \cup {<<"err", "actions", "item", a>> : a \in DOMAIN ak}
    \cup {<<k, "action", "type", a>> : k \in {"err", "bad"}, a \in DOMAIN ak}
    \cup {<<"err", "action", n, a>> :
             n \in {"workingDirectory", "path", "arguments"}, a \in DOMAIN ak}

Scheduler(p, tf, at, ak, fs) ==
    [parent |-> p, tfolder |-> tf, atask |-> at, akind |-> ak, faults |-> fs]

\* folder trees with tasks; at most MaxFaults failing calls of the traversal
InitTraversal ==
    \E p \in FolderShapes : \E tf \in TaskPlacements(p) :
      \E fs \in KSubsets(BootFaults \cup FolderFaults(p) \cup TaskFetchFaults(tf), MaxFaults) :
        ds = Scheduler(p, tf, <<>>, <<>>, fs)

\* one task with actions; any set of failing reads of the properties of the task
InitProperties ==
    \E ak \in ActionShapes : \E fs \in SUBSET TaskPropertyFaults(1) :
        ds = Scheduler(<<0>>, <<Root>>, [a \in DOMAIN ak |-> 1], ak, fs)

\* one task with actions; at most MaxFaults failing reads of the actions
InitActions ==
    \E ak \in ActionShapes : \E fs \in KSubsets(ActionFaults(1, ak), MaxFaults) :
        ds = Scheduler(<<0>>, <<Root>>, [a \in DOMAIN ak |-> 1], ak, fs)

Init ==
    /\ InitTraversal \/ InitProperties \/ InitActions
    /\ pc = "ready"
    /\ tasks = <<>>
    /\ err = Nil
    /\ log = <<>>

\* the one operation of the package
GetTasks ==
    /\ pc = "ready"
    /\ LET r == GetTasksCall(ds)
       IN  /\ tasks' = r.tasks
           /\ err' = r.err
           /\ log' = r.log
    /\ pc' = "returned"
    /\ UNCHANGED ds

Next == GetTasks

Spec == Init /\ [][Next]_vars

----------------------------------------------------------------------------
(* Vocabulary of the properties *)

Returned == pc = "returned"
Range(s) == {s[i] : i \in DOMAIN s}
Faulty(kind, name, id) == <<"err", kind, name, id>> \in ds.faults
Malformed(kind, name, id) == <<"bad", kind, name, id>> \in ds.faults
ReturnedPaths == {tasks[i].Path : i \in DOMAIN tasks}
\* the task registered under path p
TaskOfPath(p) == CHOOSE t \in DOMAIN ds.tfolder : PathOf(t) = p

RECURSIVE FolderPath(_)
\* the folders from the root down to f
FolderPath(f) ==
    IF ds.parent[f] = 0 THEN <<f>> ELSE Append(FolderPath(ds.parent[f]), f)

IsPrefix(s, t) == Len(s) <= Len(t) /\ SubSeq(t, 1, Len(s)) = s

\* Task t1 is due before task t2: same folder and lower index, or t1 lies
\* below the folder of t2, or at the fork of their folder paths t1 lies in
\* the sub-folder of lower index.
DueBefore(t1, t2) ==
    LET p1 == FolderPath(ds.tfolder[t1])
        p2 == FolderPath(ds.tfolder[t2])
    IN  IF p1 = p2 THEN t1 < t2
        ELSE IF IsPrefix(p2, p1) THEN TRUE
        ELSE IF IsPrefix(p1, p2) THEN FALSE
        ELSE LET k == CHOOSE n \in 1..Len(p1) :
                          p1[n] # p2[n] /\ \A m \in 1..(n - 1) : p1[m] = p2[m]
             IN  p1[k] < p2[k]

\* the actions of t registered as execute-program actions, in source order
ExecActionsOf(t) ==
    SelectSeq(ActionsOf(ds, t), LAMBDA a : ds.akind[a] = TASK_ACTION_EXEC)

\* the ExecAction of action a when a read that failed leaves the zero value
ExpectedAction(a) ==
    [WorkingDirectory |-> IF Faulty("action", "workingDirectory", a)
                          THEN EmptyString ELSE WorkingDirectoryOf(a),
     Path             |-> IF Faulty("action", "path", a) THEN EmptyString ELSE ProgramOf(a),
     Arguments        |-> IF Faulty("action", "arguments", a)
                          THEN EmptyString ELSE ArgumentsOf(a)]

Restrict(fn, S) == [x \in S |-> fn[x]]

RECURSIVE Subtree(_)
\* folder c and every folder below it
Subtree(c) ==
    {c} \cup UNION {Subtree(d) : d \in {x \in DOMAIN ds.parent : ds.parent[x] = c}}

\* the Task Scheduler without the tasks ts (and their actions)
WithoutTasks(E, ts) ==
    LET keep == DOMAIN E.tfolder \ ts
        acts == {a \in DOMAIN E.atask : E.atask[a] \in keep}
    IN  [E EXCEPT !.tfolder = Restrict(E.tfolder, keep),
                  !.atask = Restrict(E.atask, acts),
                  !.akind = Restrict(E.akind, acts)]

\* the Task Scheduler without folder c and all it holds
WithoutFolder(c) ==
    LET gone == Subtree(c)
        E    == WithoutTasks(ds, {t \in DOMAIN ds.tfolder : ds.tfolder[t] \in gone})
    IN  [E EXCEPT !.parent = Restrict(ds.parent, DOMAIN ds.parent \ gone)]

WithoutTask(t) == WithoutTasks(ds, {t})

WithoutAction(a) ==
    [ds EXCEPT !.atask = Restrict(ds.atask, DOMAIN ds.atask \ {a}),
               !.akind = Restrict(ds.akind, DOMAIN ds.akind \ {a})]

\* the tasks whose handle was fetched, in the order of the fetches
FetchedTasks == SelectSeq(log, LAMBDA e : e[1] = "acquire" /\ e[2] = "task")

RECURSIVE Disciplined(_, _, _, _)
\* The trace from entry i on keeps the handle discipline, given the handles
\* released, passed to a call of getTasksRecursively, and whose call returned
\* before entry i.
Disciplined(i, released, called, back) ==
    IF i > Len(log) THEN called \subseteq released
    ELSE LET op == log[i][1]
             h  == <<log[i][2], log[i][3]>>
         IN  /\ h \notin released
             /\ op = "call" => h \notin called
             /\ op = "return" => h \in called /\ h \notin back
             /\ op = "release" => (h \in called => h \in back)
             /\ Disciplined(i + 1,
                            IF op = "release" THEN released \cup {h} ELSE released,
                            IF op = "call" THEN called \cup {h} ELSE called,
                            IF op = "return" THEN back \cup {h} ELSE back)

----------------------------------------------------------------------------
(* Properties *)

\* C1: when no call to the Task Scheduler fails, GetTasks returns every task
\* of every folder below the root exactly once.
C1_Completeness ==
    (Returned /\ ds.faults = {}) =>
        /\ Len(tasks) = Cardinality(DOMAIN ds.tfolder)
        /\ ReturnedPaths = {PathOf(t) : t \in DOMAIN ds.tfolder}

C1_Witness ==
    /\ Returned /\ ds.faults = {}
    /\ ds.parent = <<0, 1, 2>> /\ ds.tfolder = <<2, 3>>
    /\ Len(tasks) = 2

\* C2: the tasks of the sub-folders of a folder come before the folder's own
\* tasks, sub-folders in ascending index order, own tasks in ascending index
\* order.
C2_Order ==
    Returned =>
        \A i \in DOMAIN tasks, j \in DOMAIN tasks :
            (i < j /\ tasks[i].Path # EmptyString /\ tasks[j].Path # EmptyString)
                => DueBefore(TaskOfPath(tasks[i].Path), TaskOfPath(tasks[j].Path))

\* root holds task A (1) and sub-folder F; F holds task B (2): [B, A]
C2_Witness ==
    /\ Returned /\ ds.faults = {}
    /\ ds.parent = <<0, 1>> /\ ds.tfolder = <<1, 2>>
    /\ Len(tasks) = 2 /\ tasks[1].Path = PathOf(2) /\ tasks[2].Path = PathOf(1)

\* C3: when all reads succeed, the ActionList of a task is the subsequence
\* of its actions of type execute-program, in source order.
C3_ActionFilter ==
    (Returned /\ ds.faults = {}) =>
        \A i \in DOMAIN tasks :
            LET ex == ExecActionsOf(TaskOfPath(tasks[i].Path))
            IN  tasks[i].ActionList = [k \in 1..Len(ex) |-> ExpectedAction(ex[k])]

\* kinds {exec, e-mail, exec}: two entries, the first and the third action
C3_Witness ==
    /\ Returned /\ ds.faults = {}
    /\ ds.akind = <<TASK_ACTION_EXEC, 6, TASK_ACTION_EXEC>>
    /\ Len(tasks) = 1 /\ Len(tasks[1].ActionList) = 2
    /\ tasks[1].ActionList[1].Path = ProgramOf(1)
    /\ tasks[1].ActionList[2].Path = ProgramOf(3)

\* C4: when the fetch of one sub-folder, task or action fails, the result is
\* the result for the same Task Scheduler without that item.
C4_FetchFault ==
    Returned =>
        /\ \A c \in DOMAIN ds.parent :
               Faulty("folderIterator", "item", c)
                   => tasks = GetTasksCall(WithoutFolder(c)).tasks
        /\ \A t \in DOMAIN ds.tfolder :
               Faulty("taskIterator", "item", t)
                   => tasks = GetTasksCall(WithoutTask(t)).tasks
        /\ \A a \in DOMAIN ds.atask :
               Faulty("actions", "item", a)
                   => tasks = GetTasksCall(WithoutAction(a)).tasks

\* the first of two tasks cannot be fetched: the second is returned
C4_Witness ==
    /\ Returned
    /\ ds.tfolder = <<1, 1>> /\ ds.faults = {<<"err", "taskIterator", "item", 1>>}
    /\ Len(tasks) = 1 /\ tasks[1].Path = PathOf(2)

\* C5: every task whose handle was fetched is returned once, whatever reads
\* of its properties fail; a field holds the value read, or its zero value
\* when the read failed.
C5_PropertyFault ==
    Returned =>
        LET ft == FetchedTasks
        IN  /\ Len(tasks) = Len(ft)
            /\ \A k \in DOMAIN ft, m \in DOMAIN ft : ft[k][3] = ft[m][3] => k = m
            /\ \A k \in DOMAIN ft :
                 LET t == ft[k][3]
                     r == tasks[k]
                 IN  /\ r.Name = IF Faulty("task", "name", t) THEN EmptyString ELSE NameOf(t)
                     /\ r.Path = IF Faulty("task", "path", t) THEN EmptyString ELSE PathOf(t)
                     /\ r.Enabled = IF Faulty("task", "enabled", t) THEN FALSE
                                    ELSE EnabledOf(t)
                     /\ r.LastRunTime = IF Faulty("task", "lastRunTime", t) THEN ZeroTime
                                        ELSE LastRunTimeOf(t)
                     /\ r.NextRunTime = IF Faulty("task", "nextRunTime", t) THEN ZeroTime
                                        ELSE NextRunTimeOf(t)
                     /\ (Faulty("task", "definition", t) \/ Faulty("definition", "actions", t)
                           \/ Faulty("actions", "count", t)) => r.ActionList = NoActions

\* the read of enabled fails: the task is returned, disabled, with its name
C5_Witness ==
    /\ Returned
    /\ ds.faults = {<<"err", "task", "enabled", 1>>}
    /\ Len(tasks) = 1 /\ ~tasks[1].Enabled /\ tasks[1].Name = NameOf(1)
    /\ Len(tasks[1].ActionList) = 2

\* C6: GetTasks returns an error and no task when a step of the bootstrap
\* fails, and no error otherwise, whatever fails in the traversal.
C6_TwoOutcomes ==
    Returned =>
        IF ds.faults \cap BootFaults # {}
        THEN err # Nil /\ tasks = <<>>
        ELSE err = Nil

\* Connect fails on a Task Scheduler that holds tasks
C6_Witness ==
    /\ Returned
    /\ ds.faults = {<<"err", "ts", "Connect", 0>>}
    /\ Cardinality(DOMAIN ds.tfolder) = 2
    /\ err = "Could not connect to Task Scheduler 2.0" /\ tasks = <<>>

\* C7: when GetTasks returns, every handle acquired has been released.
C7_AllReleased ==
    Returned =>
        \A e \in Range(log) :
            e[1] = "acquire" => <<"release", e[2], e[3]>> \in Range(log)

\* C8: when GetFolders or the count of the sub-folders fails for a folder,
\* the folder's own tasks are still returned.
C8_SubfolderPhase ==
    Returned =>
        \A f \in DOMAIN ds.parent :
            (/\ <<"call", "folder", f>> \in Range(log)
             /\ Faulty("folder", "GetFolders", f) \/ Faulty("folderIterator", "count", f)
             /\ ~Faulty("folder", "GetTasks", f)
             /\ ~Faulty("taskIterator", "count", f)
             /\ ~Malformed("taskIterator", "count", f))
            => \A t \in DOMAIN ds.tfolder :
                   (ds.tfolder[t] = f /\ ~Faulty("taskIterator", "item", t)
                        /\ ~Faulty("task", "path", t))
                       => PathOf(t) \in ReturnedPaths

\* C9: ActionList holds exactly the fetched actions whose type was read, is
\* well-formed and is execute-program; the others are left out.
C9_ActionType ==
    Returned =>
        \A i \in DOMAIN tasks :
            (/\ tasks[i].Path # EmptyString
             /\ LET t == TaskOfPath(tasks[i].Path)
                IN  /\ ~Faulty("task", "definition", t)
                    /\ ~Faulty("definition", "actions", t)
                    /\ ~Faulty("actions", "count", t)
                    /\ ~Malformed("actions", "count", t))
            => LET t  == TaskOfPath(tasks[i].Path)
                   ok == SelectSeq(ActionsOf(ds, t),
                                   LAMBDA a : /\ ~Faulty("actions", "item", a)
                                              /\ ~Faulty("action", "type", a)
                                              /\ ~Malformed("action", "type", a)
                                              /\ ds.akind[a] = TASK_ACTION_EXEC)
               IN  tasks[i].ActionList = [k \in 1..Len(ok) |-> ExpectedAction(ok[k])]

\* C10: no handle is released twice, none is used after its release, and a
\* folder handed to getTasksRecursively is released once, by the caller,
\* after the call returned.
C10_HandleDiscipline == Returned => Disciplined(1, {}, {}, {})

\* a folder two levels down is visited and released
C10_Witness ==
    /\ Returned
    /\ ds.parent = <<0, 1, 2>> /\ ds.tfolder = <<3, 3>> /\ ds.faults = {}
    /\ <<"release", "folder", 3>> \in Range(log)
    /\ <<"release", "task", 2>> \in Range(log)

====
